---- MODULE Spec2Model ----
(***************************************************************************)
(* A model of jsonxml.js, a JSON to XML converter.                         *)
(*                                                                         *)
(* Strings are sequences of one-character strings, so that the tag-name    *)
(* regular expression, concatenation, prefixes and whitespace are all      *)
(* computed character by character.  A JavaScript value that is an option  *)
(* or a wrap tag is a record [t, b, s] (typeof, boolean value, string      *)
(* value); a JSON value is a record with the same fields for every kind.   *)
(* The module-level bindings of the source that outlive a call             *)
(* (attempt_bad_name_fix, _format) and the caller's options object, which  *)
(* jsonxml writes to, are the state.                                       *)
(***************************************************************************)
EXTENDS Integers, Sequences, FiniteSets, TLC

VARIABLES
    attempt_bad_name_fix,  \* module-level flag, line 10
    _format,               \* module-level formatter binding, lines 98 and 42
    options,               \* the options object of the last call, as jsonxml left it
    literal,               \* the options object as its caller built it
    obj,                   \* the JSON value of the last call
    depth,                 \* the local depth of the last call, lines 31-34
    result,                \* what the last call returned or threw
    previous,              \* what the call before returned or threw, after a repeated call
    phase,                 \* "loaded" until the first call, then "called"
    reuse                  \* how many calls in a row were handed the same options object

vars == <<attempt_bad_name_fix, _format, options, literal, obj, depth, result, previous,
          phase, reuse>>

----------------------------------------------------------------------------
(* Bounds of the model.                                                    *)

\* longest array and largest object of a generated input
MaxLen == 2
\* deepest nesting of containers in a generated input
MaxDepth == 2
\* how many times in a row a caller hands the same options object back
MaxReuse == 2

----------------------------------------------------------------------------
(* Characters and strings.                                                 *)

\* the printable ASCII characters in code order, U+0020 to U+007E (the grave
\* accent, which a TLA+ string cannot hold, is written "U+0060")
Ascii ==
    << " ", "!", "\"", "#", "$", "%", "&", "'", "(", ")", "*", "+", ",", "-", ".", "/",
       "0", "1", "2", "3", "4", "5", "6", "7", "8", "9", ":", ";", "<", "=", ">", "?",
       "@", "A", "B", "C", "D", "E", "F", "G", "H", "I", "J", "K", "L", "M", "N", "O",
       "P", "Q", "R", "S", "T", "U", "V", "W", "X", "Y", "Z", "[", "\\", "]", "^", "_",
       "U+0060", "a", "b", "c", "d", "e", "f", "g", "h", "i", "j", "k", "l", "m", "n", "o",
       "p", "q", "r", "s", "t", "u", "v", "w", "x", "y", "z", "{", "|", "}", "~" >>

\* the code unit of each character the model writes
CodeTable ==
    [c \in {Ascii[i] : i \in 1..Len(Ascii)} \cup {"\t", "\n", "\r", "·", "é"} |->
        CASE c = "\t" -> 9
          [] c = "\n" -> 10
          [] c = "\r" -> 13
          [] c = "·" -> 183
          [] c = "é" -> 233
          [] OTHER -> 31 + (CHOOSE i \in 1..Len(Ascii) : Ascii[i] = c)]

\* the code unit of a character
Code(c) == CodeTable[c]

\* the decimal digit d as a character
Digit(d) == Ascii[17 + d]

RECURSIVE NumberToString(_)
\* Number.prototype.toString on a natural number
NumberToString(n) ==
    IF n < 10 THEN <<Digit(n)>> ELSE NumberToString(n \div 10) \o <<Digit(n % 10)>>

\* Boolean.prototype.toString
BooleanToString(b) ==
    IF b THEN <<"t", "r", "u", "e">> ELSE <<"f", "a", "l", "s", "e">>

DEFAULT_XML_HEADER ==
    << "<", "?", "x", "m", "l", " ",
       "v", "e", "r", "s", "i", "o", "n", "=", "\"", "1", ".", "0", "\"", " ",
       "e", "n", "c", "o", "d", "i", "n", "g", "=", "\"", "U", "T", "F", "-", "8", "\"", " ",
       "s", "t", "a", "n", "d", "a", "l", "o", "n", "e", "=", "\"", "n", "o", "\"", " ",
       "?", ">" >>

----------------------------------------------------------------------------
(* JavaScript values of options and wrap tags.                             *)

Undefined == [t |-> "undefined", b |-> FALSE, s |-> <<>>]
Bool(b) == [t |-> "boolean", b |-> b, s |-> <<>>]
Str(s) == [t |-> "string", b |-> FALSE, s |-> s]

\* ToBoolean: undefined, false and the empty string are falsy
Truthy(x) == (x.t = "boolean" /\ x.b) \/ (x.t = "string" /\ x.s # <<>>)

\* the conversion of a value to a string when it is concatenated or interpolated
ToStr(x) ==
    CASE x.t = "string" -> x.s
      [] x.t = "boolean" -> BooleanToString(x.b)
      [] OTHER -> <<"u", "n", "d", "e", "f", "i", "n", "e", "d">>

----------------------------------------------------------------------------
(* JSON values.  typeof is JavaScript's own typeof of the value.           *)

JNull == [typeof |-> "object", null |-> TRUE, array |-> FALSE,
          str |-> <<>>, num |-> 0, bool |-> FALSE, keys |-> <<>>, items |-> <<>>]
JString(s) == [JNull EXCEPT !.typeof = "string", !.null = FALSE, !.str = s]
JNumber(n) == [JNull EXCEPT !.typeof = "number", !.null = FALSE, !.num = n]
JBoolean(b) == [JNull EXCEPT !.typeof = "boolean", !.null = FALSE, !.bool = b]
JArray(items) == [JNull EXCEPT !.null = FALSE, !.array = TRUE, !.items = items]
\* keys is Object.keys(obj); items[i] is obj[keys[i]]
JObject(keys, items) == [JNull EXCEPT !.null = FALSE, !.keys = keys, !.items = items]

jsonTypeOf(o) ==
    LET t == o.typeof
    IN  IF t = "object"
        THEN IF o.null THEN "null" ELSE IF o.array THEN "array" ELSE t
        ELSE t

----------------------------------------------------------------------------
(* The tag-name regular expression.                                        *)

\* the first group of valid_start_tag: one character of the start class
StartChar(c) ==
    LET n == Code(c)
    IN  \/ n = 58 \/ n \in 65..90 \/ n = 95 \/ n \in 97..122
        \/ n \in 192..214 \/ n \in 216..246 \/ n \in 248..767
        \/ n \in 880..893 \/ n \in 895..8191 \/ n \in 8204..8205
        \/ n \in 8304..8591 \/ n \in 11264..12271 \/ n \in 12289..55295
        \/ n \in 63744..64975 \/ n \in 65008..65533

\* the one-character alternatives of the second group
NameChar(c) ==
    LET n == Code(c)
    IN  \/ StartChar(c)
        \/ n = 45 \/ n \in 48..57 \/ n = 183 \/ n \in 768..879 \/ n \in 8255..8256

\* what "." of a regular expression without the s flag matches
AnyChar(c) == Code(c) \notin {10, 13, 8232, 8233}

RECURSIVE RestMatches(_, _)
\* (...)*$ from position i: each iteration takes one NameChar, or the
\* two-character alternative \\. : a backslash and then any character
RestMatches(s, i) ==
    \/ i > Len(s)
    \/ NameChar(s[i]) /\ RestMatches(s, i + 1)
    \/ s[i] = "\\" /\ i + 1 <= Len(s) /\ AnyChar(s[i + 1]) /\ RestMatches(s, i + 2)

\* valid_start_tag.test(s)
valid_start_tag(s) == Len(s) >= 1 /\ StartChar(s[1]) /\ RestMatches(s, 2)

----------------------------------------------------------------------------
(* What a call, or a step of it, ends with: a returned string or a thrown  *)
(* value.  Both carry their text in str.                                   *)

Return(s) == [ok |-> TRUE, str |-> s]
Throw(s) == [ok |-> FALSE, str |-> s]

\* `Unable to use '${wrap}' as an XML tag`
TagError(wrap) ==
    Throw(<<"U", "n", "a", "b", "l", "e", " ", "t", "o", " ", "u", "s", "e", " ", "'">>
          \o ToStr(wrap)
          \o <<"'", " ", "a", "s", " ", "a", "n", " ", "X", "M", "L", " ", "t", "a", "g">>)

\* the RangeError of String.prototype.repeat on a negative count
RangeError == Throw(<<"R", "a", "n", "g", "e", "E", "r", "r", "o", "r">>)

RECURSIVE Repeat(_, _)
\* String.prototype.repeat for a count >= 0
Repeat(s, n) == IF n <= 0 THEN <<>> ELSE s \o Repeat(s, n - 1)

\* `<${tag_name}>`
OpenTag(tag_name) == <<"<">> \o tag_name \o <<">">>
\* `</${tag_name}>`
CloseTag(tag_name) == <<"<", "/">> \o tag_name \o <<">">>

----------------------------------------------------------------------------
(* The two formatters.  fix is the value of attempt_bad_name_fix that the  *)
(* formatter reads when it runs.                                           *)

\* the function bound to _format when the module loads
_format_compact(out, wrap, type, d, fix) ==
    IF Truthy(wrap)
    THEN LET tag_name == ToStr(wrap)
             temp_tag == <<"_">> \o tag_name
         IN  IF ~valid_start_tag(tag_name)
             THEN IF fix
                  THEN IF valid_start_tag(temp_tag)
                       THEN Return(OpenTag(temp_tag) \o out \o CloseTag(temp_tag))
                       ELSE TagError(wrap)
                  ELSE TagError(wrap)
             ELSE Return(OpenTag(tag_name) \o out \o CloseTag(tag_name))
    ELSE Return(out)

\* an indenting formatter that closes a repaired element with the name as given
_formatter_closing(indent, out, wrap, type, d, fix) ==
    IF ~Truthy(wrap)
    THEN Return(out)
    ELSE LET name == ToStr(wrap)
             temp_tag == <<"_">> \o name
             bad == ~valid_start_tag(name)
             tag_name == IF bad THEN temp_tag ELSE name
             tab == Repeat(indent, d - 1)
         IN  IF bad /\ ~fix THEN TagError(wrap)
             ELSE IF bad /\ ~valid_start_tag(temp_tag) THEN TagError(wrap)
             ELSE IF d - 1 < 0 THEN RangeError
             ELSE IF type = "object"
             THEN Return(tab \o OpenTag(tag_name) \o <<"\n">> \o out
                         \o tab \o CloseTag(name) \o <<"\n">>)
             ELSE Return(tab \o OpenTag(tag_name) \o out \o CloseTag(name) \o <<"\n">>)

\* the function _formatter(indent) returns
_formatter(indent, out, wrap, type, d, fix) ==
    IF ~Truthy(wrap)
    THEN Return(out)
    ELSE LET name == ToStr(wrap)
             temp_tag == <<"_">> \o name
             bad == ~valid_start_tag(name)
             tag_name == IF bad THEN temp_tag ELSE name
             tab == Repeat(indent, d - 1)
         IN  IF bad /\ ~fix THEN TagError(wrap)
             ELSE IF bad /\ ~valid_start_tag(temp_tag) THEN TagError(wrap)
             ELSE IF d - 1 < 0 THEN RangeError
             ELSE IF type = "object"
             THEN Return(tab \o OpenTag(tag_name) \o <<"\n">> \o out
                         \o tab \o CloseTag(tag_name) \o <<"\n">>)
             ELSE Return(tab \o OpenTag(tag_name) \o out \o CloseTag(tag_name) \o <<"\n">>)

\* the values _format can be bound to
Compact == [indented |-> FALSE, indent |-> <<>>]
Indented(indent) == [indented |-> TRUE, indent |-> indent]

\* _format(out, wrap, type, depth) under the bindings g = [format, fix]
ApplyFormat(g, out, wrap, type, d) ==
    IF g.format.indented
    THEN _formatter(g.format.indent, out, wrap, type, d, g.fix)
    ELSE _format_compact(out, wrap, type, d, g.fix)

----------------------------------------------------------------------------
(* The recursive walk.                                                     *)

RECURSIVE _parse(_, _, _, _)
RECURSIVE ObjectMap(_, _, _, _)
RECURSIVE ArrayMap(_, _, _, _, _)

\* Object.keys(obj).map(k => _parse(obj[k], k, depth+1)).join('') from key i on;
\* a throw of one _parse ends the map
ObjectMap(o, i, d, g) ==
    IF i > Len(o.keys) THEN Return(<<>>)
    ELSE LET head == _parse(o.items[i], Str(o.keys[i]), d + 1, g)
             tail == ObjectMap(o, i + 1, d, g)
         IN  IF ~head.ok THEN head
             ELSE IF ~tail.ok THEN tail
             ELSE Return(head.str \o tail.str)

\* obj.map(o => _parse(o, wrap, depth)).join('') from element i on
ArrayMap(o, i, wrap, d, g) ==
    IF i > Len(o.items) THEN Return(<<>>)
    ELSE LET head == _parse(o.items[i], wrap, d, g)
             tail == ArrayMap(o, i + 1, wrap, d, g)
         IN  IF ~head.ok THEN head
             ELSE IF ~tail.ok THEN tail
             ELSE Return(head.str \o tail.str)

\* a walk that forgets to clear the wrap of an array
WrapAfter_kept(type, wrap) == wrap

\* the wrap that reaches _format: the array case clears it
WrapAfter(type, wrap) == IF type = "array" THEN Bool(FALSE) ELSE wrap

_parse(o, wrap, d, g) ==
    LET type == jsonTypeOf(o)
        out == CASE type = "null" -> Return(<<"n", "u", "l", "l">>)
                 [] type = "string" -> Return(o.str)
                 [] type = "boolean" -> Return(BooleanToString(o.bool))
                 [] type = "number" -> Return(NumberToString(o.num))
                 [] type = "object" -> ObjectMap(o, 1, d, g)
                 [] type = "array" -> ArrayMap(o, 1, wrap, d, g)
                 [] OTHER -> Return(<<>>)
    IN  IF ~out.ok THEN out
        ELSE ApplyFormat(g, out.str, WrapAfter(type, wrap), type, d)

----------------------------------------------------------------------------
(* jsonxml(obj, options): what the call leaves in the options object and   *)
(* in the module bindings, and what it returns or throws.  fmt and fix are *)
(* _format and attempt_bad_name_fix as the call finds them.                *)

\* lines 25-28
HeaderOf(o) ==
    IF Truthy(o.header)
    THEN IF o.header.t = "string" THEN o.header ELSE Str(DEFAULT_XML_HEADER)
    ELSE Str(<<>>)

\* lines 31-36
IsRoot(o) == Truthy(o.root) /\ o.root.t = "string"
DepthOf(o) == IF IsRoot(o) THEN 1 ELSE 0
RootOf(o) == IF IsRoot(o) THEN o.root ELSE Bool(FALSE)

\* line 40
IndentOf(o) ==
    IF Truthy(o.indent)
    THEN IF o.indent.t # "string" THEN Str(<<"\t">>) ELSE o.indent
    ELSE o.indent

\* line 41
HeaderAfterIndent(o) ==
    LET h == HeaderOf(o)
    IN  IF Truthy(o.indent) /\ Truthy(h) THEN Str(h.s \o <<"\n">>) ELSE h

\* line 42
FormatAfter(o, fmt) == IF Truthy(o.indent) THEN Indented(IndentOf(o).s) ELSE fmt

\* lines 45-46
FixAfter(o, fix) == IF Truthy(o.attempt_bad_name_fix) THEN TRUE ELSE fix

\* line 48
ResultOf(v, o, fmt, fix) ==
    LET body == _parse(v, RootOf(o), DepthOf(o),
                       [format |-> FormatAfter(o, fmt), fix |-> FixAfter(o, fix)])
    IN  IF body.ok THEN Return(HeaderAfterIndent(o).s \o body.str) ELSE body

\* the options object after the call
OptionsAfter(o) ==
    [header |-> HeaderAfterIndent(o), root |-> RootOf(o), indent |-> IndentOf(o),
     attempt_bad_name_fix |-> o.attempt_bad_name_fix]

jsonxml(v, o) ==
    /\ options' = OptionsAfter(o)
    /\ depth' = DepthOf(o)
    /\ _format' = FormatAfter(o, _format)
    /\ attempt_bad_name_fix' = FixAfter(o, attempt_bad_name_fix)
    /\ obj' = v
    /\ result' = ResultOf(v, o, _format, attempt_bad_name_fix)

----------------------------------------------------------------------------
(* The inputs of the model.                                                *)

Leaves == {JNull, JString(<<"x">>), JNumber(12)}

\* the element that fills an array around its one chosen element
FillerItem == JNumber(7)

\* a name the underscore repairs, a name it does not, no name
ProbeKeys == { <<"1", "b", "a", "d">>, <<"a", " ", "b">>, <<>> }

\* The ways to put a value into one more container: not at all; in an array of
\* n <= MaxLen elements, as the i-th, among fillers (n = 0: the empty array);
\* in an object, as its only member, or before or after a member b: "y"
\* (n = 0: the empty object), under the key a or under the probed key.
Wrappings ==
    {[kind |-> "none", n |-> 0, i |-> 0, probe |-> FALSE]}
    \cup {[kind |-> "array", n |-> 0, i |-> 0, probe |-> FALSE]}
    \cup UNION { {[kind |-> "array", n |-> n, i |-> i, probe |-> FALSE] : i \in 1..n}
                 : n \in 1..MaxLen }
    \cup {[kind |-> "object", n |-> 0, i |-> 0, probe |-> FALSE]}
    \cup {[kind |-> "object", n |-> 1, i |-> 1, probe |-> q] : q \in BOOLEAN}
    \cup {[kind |-> "object", n |-> 2, i |-> i, probe |-> q] : i \in 1..2, q \in BOOLEAN}

\* the value c wrapped the way w says, p being the probed key
Wrapped(w, c, p) ==
    LET k == IF w.probe THEN p ELSE <<"a">>
    IN  CASE w.kind = "none" -> c
          [] w.kind = "array" /\ w.n = 0 -> JArray(<<>>)
          [] w.kind = "array" /\ w.n > 0 ->
                JArray(Repeat(<<FillerItem>>, w.i - 1) \o <<c>>
                       \o Repeat(<<FillerItem>>, w.n - w.i))
          [] w.kind = "object" /\ w.n = 0 -> JObject(<<>>, <<>>)
          [] w.kind = "object" /\ w.n = 1 -> JObject(<<k>>, <<c>>)
          [] w.kind = "object" /\ w.n = 2 /\ w.i = 1 ->
                JObject(<<k, <<"b">>>>, <<c, JString(<<"y">>)>>)
          [] OTHER -> JObject(<< <<"b">>, k>>, <<JString(<<"y">>), c>>)

RECURSIVE Tree(_, _, _, _)
\* the leaf wrapped by ws[1], then ws[2], ... up to ws[j]
Tree(leaf, ws, j, p) ==
    IF j = 0 THEN leaf ELSE Wrapped(ws[j], Tree(leaf, ws, j - 1, p), p)

\* the wrappings of a tree: at most MaxDepth containers, innermost first
TreePlans ==
    { ws \in [1..MaxDepth -> Wrappings] :
        \A j \in 1..(MaxDepth - 1) : ws[j].kind = "none" => ws[j + 1].kind = "none" }

\* names that probe the tag-name test, as keys and as root tags
ProbeNames ==
    { <<"a">>, <<"d", "o", "c">>, <<"_">>, <<"a", "-", "1">>, <<":", "a">>, <<"é">>, <<"a", "·">>,
      <<"a", ".", "b">>, <<"a", "\\", "b">>, <<"a", " ", "b">>, <<"a", "<">>,
      <<"1", "b", "a", "d">>, <<".", "a">>, <<>> }

\* a probed key over each kind of value, at the top, in an object, in an array
NameInputs ==
    UNION { { JObject(<<k>>, <<JString(<<"x">>)>>),
              JObject(<<k>>, <<JArray(<<>>)>>),
              JObject(<<k>>, <<JArray(<<JBoolean(TRUE)>>)>>),
              JObject(<<k>>, <<JObject(<<>>, <<>>)>>),
              JObject(<< <<"a">> >>, <<JObject(<<k>>, <<JNull>>)>>),
              JArray(<<JObject(<<k>>, <<JNumber(12)>>)>>) } : k \in ProbeNames }

\* {"a": [1, 2, 3]}, {"a": "x y"}, {"a": {"b": "x"}}, {"a": 1}, "hello",
\* [true, [1, "x"]]
Examples ==
    { JObject(<< <<"a">> >>, <<JArray(<<JNumber(1), JNumber(2), JNumber(3)>>)>>),
      JObject(<< <<"a">> >>, <<JString(<<"x", " ", "y">>)>>),
      JObject(<< <<"a">> >>, <<JObject(<< <<"b">> >>, <<JString(<<"x">>)>>)>>),
      JObject(<< <<"a">> >>, <<JNumber(1)>>),
      JString(<<"h", "e", "l", "l", "o">>),
      JArray(<<JBoolean(TRUE), JArray(<<JNumber(1), JString(<<"x">>)>>)>>) }

\* an options object literal
Options(header, root, indent, fix) ==
    [header |-> header, root |-> root, indent |-> indent, attempt_bad_name_fix |-> fix]

\* jsonxml(obj): the default parameter value {}
NoOptions == Options(Undefined, Undefined, Undefined, Undefined)

TreeOptions ==
    { Options(Undefined, r, i, f) :
        r \in {Undefined, Str(<<"d", "o", "c">>)},
        i \in {Undefined, Bool(TRUE), Str(<<" ">>)},
        f \in {Undefined, Bool(TRUE)} }

NameOptions ==
    { Options(h, r, i, f) :
        h \in {Undefined, Bool(TRUE)},
        r \in {Undefined, Bool(TRUE)} \cup { Str(n) : n \in ProbeNames },
        i \in {Undefined, Bool(TRUE), Str(<<" ">>)},
        f \in {Undefined, Bool(TRUE)} }

\* the calls of a session: {"1bad": "x"}, {"a": [1, 2]}, "hello"
CallInputs ==
    { JObject(<< <<"1", "b", "a", "d">> >>, <<JString(<<"x">>)>>),
      JObject(<< <<"a">> >>, <<JArray(<<JNumber(1), JNumber(2)>>)>>),
      JString(<<"h", "e", "l", "l", "o">>) }

CallOptions ==
    { Options(h, r, i, f) :
        h \in {Undefined, Bool(TRUE)},
        r \in {Undefined, Str(<<"d", "o", "c">>)},
        i \in {Undefined, Bool(FALSE), Bool(TRUE), Str(<<" ">>)},
        f \in {Undefined, Bool(FALSE), Bool(TRUE)} }

----------------------------------------------------------------------------
(* The state machine.                                                      *)

\* the module as loaded: lines 10 and 98
Init ==
    /\ attempt_bad_name_fix = FALSE
    /\ _format = Compact
    /\ options = NoOptions
    /\ literal = NoOptions
    /\ obj = JNull
    /\ depth = 0
    /\ result = Return(<<>>)
    /\ previous = Return(<<>>)
    /\ phase = "loaded"
    /\ reuse = 0

\* a call with an options object the caller has just built
Call ==
    \E v \in CallInputs, o \in CallOptions :
        /\ jsonxml(v, o)
        /\ literal' = o
        /\ previous' = Return(<<>>)
        /\ phase' = "called"
        /\ reuse' = 0

\* the same call again, with the options object of the call before
Recall ==
    /\ phase = "called"
    /\ reuse < MaxReuse
    /\ jsonxml(obj, options)
    /\ previous' = result
    /\ reuse' = reuse + 1
    /\ UNCHANGED <<literal, phase>>

Next == Call \/ Recall

Spec == Init /\ [][Next]_vars

\* a freshly loaded module and the arguments of its first call: a generated
\* tree, or a value that probes a name
InitConvert ==
    /\ attempt_bad_name_fix = FALSE
    /\ _format = Compact
    /\ options = NoOptions
    /\ \/ /\ \E leaf \in Leaves, ws \in TreePlans, p \in ProbeKeys :
                obj = Tree(leaf, ws, MaxDepth, p)
          /\ literal \in TreeOptions
       \/ obj \in NameInputs \cup Examples /\ literal \in NameOptions
    /\ depth = 0
    /\ result = Return(<<>>)
    /\ previous = Return(<<>>)
    /\ phase = "loaded"
    /\ reuse = 0

\* the first call
Convert ==
    /\ phase = "loaded"
    /\ jsonxml(obj, literal)
    /\ phase' = "called"
    /\ UNCHANGED <<literal, previous, reuse>>

SpecConvert == InitConvert /\ [][Convert]_vars

----------------------------------------------------------------------------
(* Notions the properties are stated with.                                 *)

\* s begins with p
IsPrefix(p, s) == Len(p) <= Len(s) /\ SubSeq(s, 1, Len(p)) = p
\* s without its first n characters
Drop(s, n) == SubSeq(s, n + 1, Len(s))
\* the positions of s at which sub occurs
Occurrences(sub, s) ==
    { i \in 1..(Len(s) - Len(sub) + 1) : SubSeq(s, i, i + Len(sub) - 1) = sub }
Has(sub, s) == Occurrences(sub, s) # {}

\* the XML Name production: a start character, then start characters, digits,
\* hyphens, periods, the middle dot and the combining marks
IsXmlName(s) ==
    /\ Len(s) >= 1
    /\ StartChar(s[1])
    /\ \A i \in 2..Len(s) : NameChar(s[i]) \/ s[i] = "."

\* the last call was made, and these were its arguments' options
Called == phase = "called"
\* the bindings the last call's walk ran under
Bindings == [format |-> _format, fix |-> attempt_bad_name_fix]

BadKeyObject == JObject(<< <<"1", "b", "a", "d">> >>, <<JString(<<"x">>)>>)
BadKeyError == TagError(Str(<<"1", "b", "a", "d">>))
BadKeyFixed ==
    <<"<", "_", "1", "b", "a", "d", ">", "x", "<", "/", "_", "1", "b", "a", "d", ">">>

----------------------------------------------------------------------------
(* C1: the bad-name-fix flag is scoped to the call that configures it:     *)
(* after any earlier calls, a call whose options leave attempt_bad_name_fix*)
(* false or absent, on {"1bad": "x"}, fails with the tag-name error and    *)
(* does not return "<_1bad>x</_1bad>".                                     *)
C1_FixScopedToCall ==
    (Called /\ ~Truthy(options.attempt_bad_name_fix) /\ obj = BadKeyObject)
        => (result = BadKeyError /\ ~Has(BadKeyFixed, result.str))

(* C2: the formatter is chosen by the call's own indent option: after any  *)
(* earlier calls, a call whose indent option is absent or false returns    *)
(* compact output, with no newline and no indent text in it.               *)
C2_CompactWithoutIndent ==
    (Called /\ ~Truthy(options.indent) /\ result.ok)
        => (~Has(<<"\n">>, result.str) /\ ~Has(<<"\t">>, result.str))

\* the text after the default header in the result, when it begins with it
AfterHeader == Drop(result.str, Len(DEFAULT_XML_HEADER))

(* C3: a call repeated with the very same value and options object returns *)
(* the same string, and with header: true that string begins with the      *)
(* default declaration, followed by one newline when indent is on and by   *)
(* none when it is off.                                                    *)
C3_SameCallSameOutput ==
    /\ (Called /\ reuse > 0) => result = previous
    /\ (Called /\ result.ok /\ literal.header = Bool(TRUE))
          => /\ IsPrefix(DEFAULT_XML_HEADER, result.str)
             /\ IF Truthy(literal.indent)
                THEN /\ IsPrefix(<<"\n">>, AfterHeader)
                     /\ ~IsPrefix(<<"\n", "\n">>, AfterHeader)
                ELSE ~IsPrefix(<<"\n">>, AfterHeader)

----------------------------------------------------------------------------
(* Notions of the properties about one conversion.                         *)

RECURSIVE NamesOf(_)
\* every key of every object of a value
NamesOf(v) ==
    IF v.typeof = "object" /\ ~v.null
    THEN (IF v.array THEN {} ELSE { v.keys[i] : i \in 1..Len(v.keys) })
         \cup UNION { NamesOf(v.items[i]) : i \in 1..Len(v.items) }
    ELSE {}

\* the root tag of the last call, if it had one, and the keys of its value
Tags == NamesOf(obj) \cup (IF IsRoot(literal) THEN {literal.root.s} ELSE {})

\* the result without the header the call put before it
Body == Drop(result.str, Len(options.header.s))

\* {k: "x"}
SingleKey(k) == JObject(<<k>>, <<JString(<<"x">>)>>)
\* <tag>x</tag>
ElementX(tag) == <<"<">> \o tag \o <<">", "x", "<", "/">> \o tag \o <<">">>

(* C4: with the fix disabled, whenever the root tag or any key anywhere in *)
(* the input is not an XML Name, whatever is stored under it and the empty *)
(* key included, the call fails with the tag-name error naming such a name.*)
C4_InvalidNameFails ==
    (Called /\ ~attempt_bad_name_fix /\ \E n \in Tags : ~IsXmlName(n))
        => \E n \in Tags : ~IsXmlName(n) /\ result = TagError(Str(n))

\* what {k: "x"} converts to with the fix enabled, as C5 states it
Resolved(k) ==
    IF IsXmlName(k) THEN Return(ElementX(k))
    ELSE IF IsXmlName(<<"_">> \o k) THEN Return(ElementX(<<"_">> \o k))
    ELSE TagError(Str(k))

(* C5: with the fix enabled, in both formatters, a key that is a valid     *)
(* name is emitted unchanged, an invalid key whose underscore-prefixed form*)
(* is valid is emitted as "_" + key in the opening and the closing tag, and*)
(* a key whose prefixed form is invalid fails with the error naming it.    *)
C5_FixResolvesNames ==
    \A k \in ProbeNames :
        (Called /\ attempt_bad_name_fix /\ obj = SingleKey(k)
                /\ literal.header = Undefined /\ ~IsRoot(literal))
            => result = IF Resolved(k).ok /\ _format.indented
                        THEN Return(Resolved(k).str \o <<"\n">>)
                        ELSE Resolved(k)

RECURSIVE EachWrapped(_, _, _, _, _)
\* the elements of items from the i-th on, each converted with the wrap tag
\* and depth given, one after the other; the first failure is the outcome
EachWrapped(items, i, wrap, d, g) ==
    IF i > Len(items) THEN Return(<<>>)
    ELSE LET head == _parse(items[i], wrap, d, g)
             tail == EachWrapped(items, i + 1, wrap, d, g)
         IN  IF ~head.ok THEN head ELSE IF ~tail.ok THEN tail
             ELSE Return(head.str \o tail.str)

RECURSIVE ArraysAreTheirElements(_, _, _, _)
\* of every array of v, reached by the walk with the wrap tag and depth it is
\* stored under: its conversion is its elements' conversions in a row
ArraysAreTheirElements(v, wrap, d, g) ==
    IF v.typeof = "object" /\ ~v.null
    THEN IF v.array
         THEN /\ _parse(v, wrap, d, g) = EachWrapped(v.items, 1, wrap, d, g)
              /\ \A i \in 1..Len(v.items) : ArraysAreTheirElements(v.items[i], wrap, d, g)
         ELSE \A i \in 1..Len(v.items) :
                  ArraysAreTheirElements(v.items[i], Str(v.keys[i]), d + 1, g)
    ELSE TRUE

\* the text of a scalar
TextOf(v) ==
    CASE v.typeof = "string" -> v.str
      [] v.typeof = "number" -> NumberToString(v.num)
      [] v.typeof = "boolean" -> BooleanToString(v.bool)
      [] OTHER -> <<"n", "u", "l", "l">>

RECURSIVE Texts(_, _)
\* the texts of the scalars items[i], items[i+1], ... in a row
Texts(items, i) ==
    IF i > Len(items) THEN <<>> ELSE TextOf(items[i]) \o Texts(items, i + 1)

IsScalar(v) == v.typeof # "object" \/ v.null

ExampleA123 ==
    JObject(<< <<"a">> >>, <<JArray(<<JNumber(1), JNumber(2), JNumber(3)>>)>>)
ExampleA123Compact ==
    << "<", "a", ">", "1", "<", "/", "a", ">", "<", "a", ">", "2", "<", "/", "a", ">",
       "<", "a", ">", "3", "<", "/", "a", ">" >>

(* C6: an array never gets an element of its own: wherever it stands, its  *)
(* conversion is its elements' conversions, each with the array's wrap tag *)
(* and depth, in order and with nothing around them; {"a": [1, 2, 3]}      *)
(* compact is "<a>1</a><a>2</a><a>3</a>"; a top-level array of scalars     *)
(* without a root is their texts and no tag.                               *)
C6_ArraysAddNoElement ==
    Called =>
        /\ ArraysAreTheirElements(obj, RootOf(literal), DepthOf(literal), Bindings)
        /\ (obj = ExampleA123 /\ ~_format.indented /\ ~IsRoot(literal))
              => Body = ExampleA123Compact
        /\ (obj.array /\ ~IsRoot(literal) /\ \A i \in 1..Len(obj.items) : IsScalar(obj.items[i]))
              => (result.ok /\ Body = Texts(obj.items, 1) /\ ~Has(<<"<">>, Body))

\* [7, ["x"]], an array directly in an array, converted under the root doc
C6_Witness ==
    /\ Called
    /\ obj = JArray(<<FillerItem, JArray(<<JString(<<"x">>)>>)>>)
    /\ result = Return(<< "<", "d", "o", "c", ">", "7", "<", "/", "d", "o", "c", ">",
                          "<", "d", "o", "c", ">", "x", "<", "/", "d", "o", "c", ">" >>)

\* s ends with p
IsSuffix(p, s) == Len(p) <= Len(s) /\ SubSeq(s, Len(s) - Len(p) + 1, Len(s)) = p

\* the newline the indenting formatter ends an element with
LineEnd == IF _format.indented THEN <<"\n">> ELSE <<>>

(* C7: when options.root is a non-empty valid name R, the body of the      *)
(* output is one element named R around the conversion of the whole input, *)
(* whatever kind of value the input is, and the walk starts at depth 1;    *)
(* when root is absent, empty or not a string, the walk starts at depth 0  *)
(* and the body gets no element around it.                                 *)
C7_RootWrapsWholeInput ==
    Called =>
        IF literal.root.t = "string" /\ literal.root.s # <<>>
        THEN (result.ok /\ IsXmlName(literal.root.s)) =>
                /\ depth = 1
                /\ IsPrefix(OpenTag(literal.root.s), Body)
                /\ IsSuffix(CloseTag(literal.root.s) \o LineEnd, Body)
                /\ literal.root.s \notin NamesOf(obj)
                      => Cardinality(Occurrences(OpenTag(literal.root.s), Body)) = 1
        ELSE /\ depth = 0
             /\ result = ResultOf(obj, [literal EXCEPT !.root = Undefined],
                                  Compact, FALSE)

(* C8: when the root tag, if any, and all keys are valid names, the call   *)
(* returns a string and throws nothing, whatever the header, root and      *)
(* indent options; the indenting formatter never repeats the indent a      *)
(* negative number of times; and a top-level string without options is     *)
(* returned unchanged.                                                     *)
C8_ValidNamesNeverThrow ==
    Called =>
        /\ (\A n \in Tags : IsXmlName(n)) => result.ok
        /\ result # RangeError
        /\ (obj.typeof = "string" /\ literal = NoOptions) => result = Return(obj.str)

(* C10: the tag-name test accepts a name exactly when it is an XML Name:   *)
(* the conversion of {k: "x"} without the fix succeeds exactly when k is a *)
(* start character followed by name characters, the period among them.     *)
C10_ValidatorIsXmlName ==
    \A k \in ProbeNames \ {<<>>} :
        (Called /\ ~attempt_bad_name_fix /\ obj = SingleKey(k) /\ ~IsRoot(literal))
            => (result.ok <=> IsXmlName(k))

----------------------------------------------------------------------------
(* The layout the indenting formatter adds.                                *)

Blank(c) == c \in {" ", "\t"}

\* a character that is neither a blank nor a newline
Inked(c) == ~Blank(c) /\ c # "\n"
\* s without its blanks and newlines
Strip(s) == SelectSeq(s, Inked)

\* in s, every newline follows the end of a tag, and every blank is a copy of
\* the indent unit in a row of copies that leads to a tag
LayoutFollowsTags(s, unit) ==
    \A i \in 1..Len(s) :
        /\ s[i] = "\n" => (i > 1 /\ s[i - 1] = ">")
        /\ Blank(s[i]) =>
              /\ <<s[i]>> = unit
              /\ i < Len(s) /\ (<<s[i + 1]>> = unit \/ s[i + 1] = "<")

\* the last call made again by a freshly loaded module without the indent option
CompactTwin == ResultOf(obj, [literal EXCEPT !.indent = Undefined], Compact, FALSE)

ExampleNested == JObject(<< <<"a">> >>, <<JObject(<< <<"b">> >>, <<JString(<<"x">>)>>)>>)
\* <doc>, <a> one tab in, <b>x</b> two tabs in, </a> one tab in, </doc>
ExampleNestedIndented ==
    << "<", "d", "o", "c", ">", "\n",
       "\t", "<", "a", ">", "\n",
       "\t", "\t", "<", "b", ">", "x", "<", "/", "b", ">", "\n",
       "\t", "<", "/", "a", ">", "\n",
       "<", "/", "d", "o", "c", ">", "\n" >>

(* C9: a call with indentation (a tab or a blank as the unit) and the      *)
(* compact call on the same input fail alike, and otherwise the two        *)
(* outputs are the same once blanks and newlines are stripped; what the    *)
(* indenting formatter adds is only newlines after tags and copies of the  *)
(* indent unit before tags (checked where the compact output holds no      *)
(* blank of its own), the unit repeated depth - 1 times.                   *)
C9_IndentedIsCompactPlusLayout ==
    (Called /\ Truthy(literal.indent)) =>
        LET twin == CompactTwin
            body == Drop(twin.str, Len(HeaderOf(literal).s))
        IN  /\ ~twin.ok => result = twin
            /\ twin.ok =>
                  /\ result.ok
                  /\ Strip(result.str) = Strip(twin.str)
                  /\ Strip(body) = body => LayoutFollowsTags(Body, _format.indent)
            /\ (obj = ExampleNested /\ literal.root = Str(<<"d", "o", "c">>)
                  /\ literal.indent = Bool(TRUE))
                  => Body = ExampleNestedIndented

\* an indented conversion with a repaired key two levels down
C9_Witness ==
    /\ Called
    /\ Truthy(literal.indent)
    /\ result.ok
    /\ Has(<<"\n", "\t", "\t", "<", "_", "1", "b", "a", "d", ">">>, result.str)

====
